---- MODULE Spec2Model ----
(***************************************************************************)
(* Buffer pool manager and LRU replacer of bustub                           *)
(* (src/buffer/buffer_pool_manager.cpp, src/buffer/lru_replacer.cpp).       *)
(*                                                                          *)
(* Spec        : one caller; every public operation of the pool manager is  *)
(*               one atomic action (the whole handler).  With one caller    *)
(*               the latch is free whenever an operation starts, and the    *)
(*               second unlock of an early return finds it free.            *)
(* SpecData    : Spec's operations and a caller that writes the content of  *)
(*               the frames it holds; the first MaxCalls calls.             *)
(* SpecThreads : NumThreads callers; the latch operations of every handler  *)
(*               are separate steps, the work done between them is one step.*)
(* SpecLRU     : the LRUReplacer alone, one caller of Victim, Pin and Unpin;*)
(*               the first MaxLruCalls calls.                               *)
(***************************************************************************)
EXTENDS Integers, Sequences, FiniteSets, TLC

\* ---------------------------------------------------------------- bounds
PoolSize == 2        \* pool_size given to the constructor
NumDiskPages == 3    \* pages 0..NumDiskPages-1 exist in the store at start
MaxNewPages == 1     \* number of AllocatePage calls explored
MaxPin == 2          \* cap of a frame's pin count
MaxData == 1         \* page contents are values 0..MaxData (0 = zero-filled)
ExtraFree == 1       \* free_list_ is explored up to PoolSize + ExtraFree entries
MaxCalls == 9        \* SpecData: number of calls explored
MaxThreadCalls == 4  \* SpecThreads: number of calls explored
MaxLruCalls == 6     \* SpecLRU: number of calls explored
NumThreads == 2      \* callers of SpecThreads

\* ------------------------------------------------------------- constants
INVALID_PAGE_ID == -1
NoFrame == -1

Frames == 0 .. (PoolSize - 1)
MaxPageId == NumDiskPages + MaxNewPages - 1
PageIds == 0 .. MaxPageId
\* keys the code uses on page_table_ and on the store: page ids, and frame
\* ids where the code passes a frame id in the place of a page id
KeyIds == PageIds \cup Frames
DataVals == 0 .. MaxData
Threads == 1 .. NumThreads
\* frame ids the replacer's methods are called with when it is used alone:
\* one more than it has room for
LruFrameIds == 0 .. PoolSize

VARIABLES
  pages,         \* pages_[f]: page_id_, pin_count_, is_dirty_, data_
  page_table,    \* page_table_: key -> frame, NoFrame when the key is absent
  free_list,     \* free_list_
  ring_buffer,   \* LRUReplacer::ring_buffer_, front is index 1
  frame_it_map,  \* LRUReplacer::frame_it_map_ (its key set)
  lru_blocked,   \* a thread waits for the replacer latch it holds itself
  disk,          \* the external page store: page id -> contents
  next_page_id,  \* the store's next identifier
  calls,         \* SpecData, SpecThreads: number of calls made so far
  last,          \* the last completed call: operation, page id, result,
                 \* frame, identifier passed to DeallocatePage
  latch,         \* BufferPoolManager::latch_: 0 free, else the locking thread
  pc,            \* SpecThreads: where each thread is
  fa_i,          \* SpecThreads: loop index of a thread in FlushAllPagesImpl
  tracked_at     \* SpecLRU: per frame, the number of the call that made it
                 \* tracked; 0 when the frame is not tracked

poolvars == <<pages, page_table, free_list, ring_buffer, frame_it_map,
              lru_blocked, disk, next_page_id>>
threadvars == <<latch, pc, fa_i>>
vars == <<pages, page_table, free_list, ring_buffer, frame_it_map,
          lru_blocked, disk, next_page_id, calls, last, latch, pc, fa_i,
          tracked_at>>

\* ------------------------------------------------------------- sequences
RECURSIVE SeqRemove(_, _)
SeqRemove(s, x) ==
  IF s = <<>> THEN <<>>
  ELSE IF Head(s) = x THEN Tail(s)
       ELSE <<Head(s)>> \o SeqRemove(Tail(s), x)

SeqSet(s) == { s[i] : i \in 1 .. Len(s) }

\* ----------------------------------------------------------- LRUReplacer
\* replacer_ = new LRUReplacer(pool_size)
max_num_pages == PoolSize

\* Victim as it would be with pop_front in the place of pop_back: the frame
\* tracked last is returned
LRUVictim_Front(rb, fm) ==
  IF rb = <<>>
  THEN [ok |-> FALSE, frame_id |-> NoFrame, rb |-> rb, fm |-> fm]
  ELSE [ok |-> TRUE, frame_id |-> Head(rb),
        rb |-> Tail(rb), fm |-> fm \ {Head(rb)}]

\* Victim: pop the back of ring_buffer_, erase it from frame_it_map_
LRUVictim(rb, fm) ==
  IF rb = <<>>
  THEN [ok |-> FALSE, frame_id |-> NoFrame, rb |-> rb, fm |-> fm]
  ELSE [ok |-> TRUE, frame_id |-> rb[Len(rb)],
        rb |-> SubSeq(rb, 1, Len(rb) - 1), fm |-> fm \ {rb[Len(rb)]}]

\* Pin as it would be without ring_buffer_.erase(iter): the frame leaves
\* the map and stays in the list
LRUPin_MapOnly(rb, fm, frame_id) ==
  IF frame_id \in fm
  THEN [rb |-> rb, fm |-> fm \ {frame_id}]
  ELSE [rb |-> rb, fm |-> fm]

\* Pin: erase the frame from map and list when the map has it
LRUPin(rb, fm, frame_id) ==
  IF frame_id \in fm
  THEN [rb |-> SeqRemove(rb, frame_id), fm |-> fm \ {frame_id}]
  ELSE [rb |-> rb, fm |-> fm]

\* Unpin: no-op when tracked; when the list holds max_num_pages_ frames it
\* calls Victim, which locks the latch Unpin already holds; else push_front
LRUUnpin(rb, fm, frame_id) ==
  IF frame_id \in fm
  THEN [rb |-> rb, fm |-> fm, blocked |-> FALSE]
  ELSE IF Len(rb) = max_num_pages
       THEN [rb |-> rb, fm |-> fm, blocked |-> TRUE]
       ELSE [rb |-> <<frame_id>> \o rb, fm |-> fm \cup {frame_id},
             blocked |-> FALSE]

\* Unpin of an untracked frame when the list holds max_num_pages_ frames,
\* in a build where locking latch_ a second time does not block: Victim
\* drops the back of the list, then push_front
LRUUnpinReentered(rb, fm, frame_id) ==
  LET v == LRUVictim(rb, fm)
  IN [rb |-> <<frame_id>> \o v.rb, fm |-> v.fm \cup {frame_id},
      victim |-> v.frame_id]

LRUSize(rb) == Len(rb)

\* ------------------------------------------------------------ Page, store
FreshPage == [page_id |-> INVALID_PAGE_ID, pin_count |-> 0,
              is_dirty |-> FALSE, data |-> 0]

\* UpdatePageMetaData(page, id): the frame now holds id, unpinned and clean
UpdatePageMetaData(page, pid) ==
  [page EXCEPT !.page_id = pid, !.pin_count = 0, !.is_dirty = FALSE]

Present(pt, k) == k \in KeyIds /\ pt[k] # NoFrame

Erase(pt, k) == IF k \in KeyIds THEN [pt EXCEPT ![k] = NoFrame] ELSE pt

\* page_table_[k] of std::unordered_map: inserts k -> 0 when k is absent
Subscript(pt, k) == IF pt[k] = NoFrame THEN [pt EXCEPT ![k] = 0] ELSE pt

\* ------------------------------------------------------ BufferPoolManager
Result(op, page_id, ok, frame, dealloc) ==
  [op |-> op, page_id |-> page_id, ok |-> ok, frame |-> frame,
   dealloc |-> dealloc]

\* FlushPageImplL on a page table, frame array and store
FlushPageImplL(pt, pgs, dsk, page_id) ==
  IF ~Present(pt, page_id)
  THEN [ok |-> FALSE, pages |-> pgs, disk |-> dsk]
  ELSE LET frame_id == pt[page_id] IN
       IF pgs[frame_id].is_dirty
       THEN [ok |-> TRUE,
             pages |-> [pgs EXCEPT ![frame_id].is_dirty = FALSE],
             disk |-> [dsk EXCEPT ![page_id] = pgs[frame_id].data]]
       ELSE [ok |-> TRUE, pages |-> pgs, disk |-> dsk]

\* PickVictimFrameL as it would be with frame_id initialised to 0, not -1:
\* a frame is returned although neither free list nor replacer has one
PickVictimFrameL_ZeroInit(fl, rb, fm) ==
  IF fl # <<>>
  THEN [frame_id |-> Head(fl), fl |-> Tail(fl), rb |-> rb, fm |-> fm]
  ELSE LET v == LRUVictim(rb, fm) IN
       [frame_id |-> IF v.ok THEN v.frame_id ELSE 0,
        fl |-> fl, rb |-> v.rb, fm |-> v.fm]

\* PickVictimFrameL: front of the free list, else the replacer's victim,
\* else -1
PickVictimFrameL(fl, rb, fm) ==
  IF fl # <<>>
  THEN [frame_id |-> Head(fl), fl |-> Tail(fl), rb |-> rb, fm |-> fm]
  ELSE LET v == LRUVictim(rb, fm) IN
       [frame_id |-> v.frame_id, fl |-> fl, rb |-> v.rb, fm |-> v.fm]

AllPagesPinnedL == LRUSize(ring_buffer) = 0 /\ free_list = <<>>

\* the victim's write-back of FetchPageImpl:
\*   if (pages_[frame_id].IsDirty()) FlushPageImplL(page_table_[frame_id]);
\* page_table_ is subscripted with the frame id, and the frame id found
\* there is passed to FlushPageImplL as a page id
FetchWriteBack(pt, pgs, dsk, frame_id) ==
  IF pgs[frame_id].is_dirty
  THEN LET pt1 == Subscript(pt, frame_id)
           fl == FlushPageImplL(pt1, pgs, dsk, pt1[frame_id])
       IN [pt |-> pt1, pages |-> fl.pages, disk |-> fl.disk]
  ELSE [pt |-> pt, pages |-> pgs, disk |-> dsk]

FetchPageImpl(page_id) ==
  IF Present(page_table, page_id)
  THEN LET frame_id == page_table[page_id]
           r == LRUPin(ring_buffer, frame_it_map, frame_id)
       IN /\ ring_buffer' = r.rb
          /\ frame_it_map' = r.fm
          /\ pages' = [pages EXCEPT ![frame_id].pin_count = @ + 1]
          /\ last' = Result("Fetch", page_id, TRUE, frame_id,
                         INVALID_PAGE_ID)
          /\ UNCHANGED <<page_table, free_list, lru_blocked, disk,
                         next_page_id>>
  ELSE LET v == PickVictimFrameL(free_list, ring_buffer, frame_it_map)
           frame_id == v.frame_id
       IN /\ free_list' = v.fl
          /\ ring_buffer' = v.rb
          /\ frame_it_map' = v.fm
          /\ IF frame_id < 0
             THEN /\ last' = Result("Fetch", page_id, FALSE, NoFrame,
                         INVALID_PAGE_ID)
                  /\ UNCHANGED <<pages, page_table, disk>>
             ELSE LET victim_page_id == pages[frame_id].page_id
                      wb == FetchWriteBack(page_table, pages, disk, frame_id)
                      pt2 == Erase(wb.pt, victim_page_id)
                  IN /\ page_table' = [pt2 EXCEPT ![page_id] = frame_id]
                     /\ disk' = wb.disk
                     /\ pages' =
                          [wb.pages EXCEPT ![frame_id] =
                             [UpdatePageMetaData(@, page_id) EXCEPT
                                !.pin_count = @ + 1,
                                !.data = wb.disk[page_id]]]
                     /\ last' = Result("Fetch", page_id, TRUE, frame_id,
                         INVALID_PAGE_ID)
          /\ UNCHANGED <<lru_blocked, next_page_id>>

\* UnpinPageImpl as it would be without the test of lines 91-94: the pin
\* count is decremented whatever its value
UnpinPageImpl_NoCheck(page_id, is_dirty) ==
  IF ~Present(page_table, page_id)
  THEN /\ last' = Result("Unpin", page_id, FALSE, NoFrame,
                         INVALID_PAGE_ID)
       /\ UNCHANGED poolvars
  ELSE LET frame_id == page_table[page_id]
           pgs1 == IF is_dirty
                   THEN [pages EXCEPT ![frame_id].is_dirty = TRUE]
                   ELSE pages
           pgs2 == [pgs1 EXCEPT ![frame_id].pin_count = @ - 1]
           r == IF pgs2[frame_id].pin_count = 0
                THEN LRUUnpin(ring_buffer, frame_it_map, frame_id)
                ELSE [rb |-> ring_buffer, fm |-> frame_it_map,
                      blocked |-> FALSE]
       IN /\ pages' = pgs2
          /\ ring_buffer' = r.rb
          /\ frame_it_map' = r.fm
          /\ lru_blocked' = r.blocked
          /\ last' = Result("Unpin", page_id, TRUE, frame_id,
                            INVALID_PAGE_ID)
          /\ UNCHANGED <<page_table, free_list, disk, next_page_id>>

UnpinPageImpl(page_id, is_dirty) ==
  IF ~Present(page_table, page_id)
  THEN /\ last' = Result("Unpin", page_id, FALSE, NoFrame,
                         INVALID_PAGE_ID)
       /\ UNCHANGED poolvars
  ELSE LET frame_id == page_table[page_id]
           pgs1 == IF is_dirty
                   THEN [pages EXCEPT ![frame_id].is_dirty = TRUE]
                   ELSE pages
       IN IF pgs1[frame_id].pin_count <= 0
          THEN /\ pages' = pgs1
               /\ last' = Result("Unpin", page_id, FALSE, frame_id,
                         INVALID_PAGE_ID)
               /\ UNCHANGED <<page_table, free_list, ring_buffer,
                              frame_it_map, lru_blocked, disk, next_page_id>>
          ELSE LET pgs2 == [pgs1 EXCEPT ![frame_id].pin_count = @ - 1]
                   r == IF pgs2[frame_id].pin_count = 0
                        THEN LRUUnpin(ring_buffer, frame_it_map, frame_id)
                        ELSE [rb |-> ring_buffer, fm |-> frame_it_map,
                              blocked |-> FALSE]
               IN /\ pages' = pgs2
                  /\ ring_buffer' = r.rb
                  /\ frame_it_map' = r.fm
                  /\ lru_blocked' = r.blocked
                  /\ last' = Result("Unpin", page_id, TRUE, frame_id,
                         INVALID_PAGE_ID)
                  /\ UNCHANGED <<page_table, free_list, disk, next_page_id>>

FlushPageImpl(page_id) ==
  LET fl == FlushPageImplL(page_table, pages, disk, page_id)
  IN /\ pages' = fl.pages
     /\ disk' = fl.disk
     /\ last' = Result("Flush", page_id, fl.ok, IF fl.ok THEN page_table[page_id] ELSE NoFrame,
                         INVALID_PAGE_ID)
     /\ UNCHANGED <<page_table, free_list, ring_buffer, frame_it_map,
                    lru_blocked, next_page_id>>

NewPageImpl ==
  IF AllPagesPinnedL
  THEN /\ last' = Result("NewPage", INVALID_PAGE_ID, FALSE, NoFrame,
                         INVALID_PAGE_ID)
       /\ UNCHANGED poolvars
  ELSE LET pid == next_page_id
           v == PickVictimFrameL(free_list, ring_buffer, frame_it_map)
           frame_id == v.frame_id
           victim_page_id == pages[frame_id].page_id
           fl == IF pages[frame_id].is_dirty
                 THEN FlushPageImplL(page_table, pages, disk, victim_page_id)
                 ELSE [ok |-> TRUE, pages |-> pages, disk |-> disk]
           pt1 == Erase(page_table, victim_page_id)
       IN /\ next_page_id' = pid + 1
          /\ free_list' = v.fl
          /\ ring_buffer' = v.rb
          /\ frame_it_map' = v.fm
          /\ disk' = fl.disk
          /\ pages' = [fl.pages EXCEPT ![frame_id] =
                         [UpdatePageMetaData(@, pid) EXCEPT
                            !.pin_count = @ + 1, !.data = 0]]
          /\ page_table' = [pt1 EXCEPT ![pid] = frame_id]
          /\ last' = Result("NewPage", pid, TRUE, frame_id,
                         INVALID_PAGE_ID)
          /\ UNCHANGED <<lru_blocked>>

DeletePageImpl(page_id) ==
  IF ~Present(page_table, page_id)
  THEN /\ last' = Result("Delete", page_id, TRUE, NoFrame,
                         INVALID_PAGE_ID)
       /\ UNCHANGED poolvars
  ELSE LET frame_id == page_table[page_id] IN
       IF pages[frame_id].pin_count > 0
       THEN /\ last' = Result("Delete", page_id, FALSE, frame_id,
                         INVALID_PAGE_ID)
            /\ UNCHANGED poolvars
       ELSE /\ page_table' = Erase(page_table, page_id)
            /\ pages' = [pages EXCEPT ![frame_id] =
                           UpdatePageMetaData(@, INVALID_PAGE_ID)]
            /\ free_list' = Append(free_list, frame_id)
            /\ last' = Result("Delete", page_id, TRUE, frame_id,
                         page_id)
            /\ UNCHANGED <<ring_buffer, frame_it_map, lru_blocked, disk,
                           next_page_id>>

\* one iteration of the loop of FlushAllPagesImpl: frame i's dirty flag is
\* tested and FlushPageImplL is called with i
FlushAllIter(pt, st, i) ==
  IF st.pages[i].is_dirty
  THEN LET fl == FlushPageImplL(pt, st.pages, st.disk, i)
       IN [pages |-> fl.pages, disk |-> fl.disk]
  ELSE st

RECURSIVE FlushAllLoop(_, _, _)
FlushAllLoop(pt, st, i) ==
  IF i >= PoolSize THEN st
  ELSE FlushAllLoop(pt, FlushAllIter(pt, st, i), i + 1)

FlushAllPagesImpl ==
  LET st == FlushAllLoop(page_table, [pages |-> pages, disk |-> disk], 0)
  IN /\ pages' = st.pages
     /\ disk' = st.disk
     /\ last' = Result("FlushAll", INVALID_PAGE_ID, TRUE, NoFrame,
                         INVALID_PAGE_ID)
     /\ UNCHANGED <<page_table, free_list, ring_buffer, frame_it_map,
                    lru_blocked, next_page_id>>

\* a caller that holds a frame (pin count > 0) writes its content buffer
WriteData(frame_id, d) ==
  /\ pages[frame_id].pin_count > 0
  /\ pages[frame_id].data # d
  /\ pages' = [pages EXCEPT ![frame_id].data = d]
  /\ last' = Result("Write", INVALID_PAGE_ID, TRUE, frame_id,
                         INVALID_PAGE_ID)
  /\ UNCHANGED <<page_table, free_list, ring_buffer, frame_it_map,
                 lru_blocked, disk, next_page_id>>

\* ------------------------------------------------------------------ Init
Init ==
  /\ pages = [f \in Frames |-> FreshPage]
  /\ page_table = [k \in KeyIds |-> NoFrame]
  /\ free_list = [i \in 1 .. PoolSize |-> i - 1]
  /\ ring_buffer = <<>>
  /\ frame_it_map = {}
  /\ lru_blocked = FALSE
  /\ disk = [k \in KeyIds |-> 0]
  /\ next_page_id = NumDiskPages
  /\ calls = 0
  /\ last = Result("Init", INVALID_PAGE_ID, TRUE, NoFrame, INVALID_PAGE_ID)
  /\ latch = 0
  /\ pc = [t \in Threads |-> "idle"]
  /\ fa_i = [t \in Threads |-> 0]
  /\ tracked_at = [f \in LruFrameIds |-> 0]

\* ----------------------------------------------------------------- calls
\* a page can be fetched once the store has handed out its identifier; the
\* pin count is explored up to MaxPin
Fetchable(page_id) ==
  /\ page_id < next_page_id
  /\ Present(page_table, page_id) =>
       pages[page_table[page_id]].pin_count < MaxPin

\* DeletePage calls that push a frame are explored while the list is short
Deletable(page_id) ==
  (Present(page_table, page_id) /\ pages[page_table[page_id]].pin_count = 0)
    => Len(free_list) < PoolSize + ExtraFree

FetchCall == \E p \in PageIds :
  ~lru_blocked /\ Fetchable(p) /\ FetchPageImpl(p)

UnpinCall == \E p \in PageIds, d \in BOOLEAN :
  ~lru_blocked /\ UnpinPageImpl(p, d)

FlushCall == \E p \in PageIds :
  ~lru_blocked /\ FlushPageImpl(p)

FlushAllCall == ~lru_blocked /\ FlushAllPagesImpl

NewPageCall == ~lru_blocked /\ next_page_id <= MaxPageId /\ NewPageImpl

DeletePageCall == \E p \in PageIds :
  ~lru_blocked /\ Deletable(p) /\ DeletePageImpl(p)

WriteCall == \E f \in Frames, d \in DataVals :
  ~lru_blocked /\ WriteData(f, d)

\* --------------------------------- Spec: one caller, the six operations
Fetch == FetchCall /\ UNCHANGED <<calls, latch, pc, fa_i, tracked_at>>

Unpin == UnpinCall /\ UNCHANGED <<calls, latch, pc, fa_i, tracked_at>>

Flush == FlushCall /\ UNCHANGED <<calls, latch, pc, fa_i, tracked_at>>

FlushAll == FlushAllCall /\ UNCHANGED <<calls, latch, pc, fa_i, tracked_at>>

NewPage == NewPageCall /\ UNCHANGED <<calls, latch, pc, fa_i, tracked_at>>

DeletePage == DeletePageCall /\ UNCHANGED <<calls, latch, pc, fa_i, tracked_at>>

Next == Fetch \/ Unpin \/ Flush \/ FlushAll \/ NewPage \/ DeletePage

Spec == Init /\ [][Next]_vars

\* ------- SpecData: one caller that also writes the frames it holds; the
\* first MaxCalls calls are explored
Counted == calls < MaxCalls /\ calls' = calls + 1
           /\ UNCHANGED <<threadvars, tracked_at>>

DataFetch == FetchCall /\ Counted

DataUnpin == UnpinCall /\ Counted

DataFlush == FlushCall /\ Counted

DataFlushAll == FlushAllCall /\ Counted

DataNewPage == NewPageCall /\ Counted

DataDeletePage == DeletePageCall /\ Counted

DataWrite == WriteCall /\ Counted

NextData ==
  \/ DataFetch \/ DataUnpin \/ DataFlush \/ DataFlushAll
  \/ DataNewPage \/ DataDeletePage \/ DataWrite

SpecData == Init /\ [][NextData]_vars

\* --- SpecThreads: NumThreads callers; the first MaxThreadCalls calls are
\* explored.  pc[t]: "idle"; "locked" after std::scoped_lock took latch_;
\* "unlocked" after the body ran into a return that calls latch_.unlock()
\* itself; "exit" after the body ran to a plain return; "flushall" inside
\* the loop of FlushAllPagesImpl, which takes no latch.

\* latch_.unlock() by thread t.  Unlocking a std::mutex the thread does not
\* own is undefined: the mutex is released all the same, or is left alone.
Unlocked(t) == IF latch = t THEN {0} ELSE {0, latch}

\* std::scoped_lock buffer_latch{latch_} at the head of an operation
TLock(t) ==
  /\ pc[t] = "idle" /\ latch = 0
  /\ calls < MaxThreadCalls
  /\ calls' = calls + 1
  /\ latch' = t
  /\ pc' = [pc EXCEPT ![t] = "locked"]
  /\ UNCHANGED <<pages, page_table, free_list, ring_buffer, frame_it_map,
                 lru_blocked, disk, next_page_id, last, fa_i, tracked_at>>

\* the end of the body: an early return has called latch_.unlock()
AfterBody(t, early) ==
  /\ IF early
     THEN /\ latch' \in Unlocked(t)
          /\ pc' = [pc EXCEPT ![t] = "unlocked"]
     ELSE /\ latch' = latch
          /\ pc' = [pc EXCEPT ![t] = "exit"]
  /\ UNCHANGED <<calls, fa_i, tracked_at>>

TFetch(t) == \E p \in PageIds :
  /\ pc[t] = "locked" /\ ~lru_blocked /\ Fetchable(p)
  /\ FetchPageImpl(p)
  /\ AfterBody(t, Present(page_table, p) \/ ~last'.ok)

TUnpin(t) == \E p \in PageIds, d \in BOOLEAN :
  /\ pc[t] = "locked" /\ ~lru_blocked
  /\ UnpinPageImpl(p, d)
  /\ AfterBody(t, ~last'.ok)

TFlush(t) == \E p \in PageIds :
  /\ pc[t] = "locked" /\ ~lru_blocked
  /\ FlushPageImpl(p)
  /\ AfterBody(t, FALSE)

TNewPage(t) ==
  /\ pc[t] = "locked" /\ ~lru_blocked /\ next_page_id <= MaxPageId
  /\ NewPageImpl
  /\ AfterBody(t, ~last'.ok)

TDeletePage(t) == \E p \in PageIds :
  /\ pc[t] = "locked" /\ ~lru_blocked /\ Deletable(p)
  /\ DeletePageImpl(p)
  /\ AfterBody(t, last'.dealloc = INVALID_PAGE_ID)

\* the destructor of buffer_latch at the return: latch_.unlock()
TReturn(t) ==
  /\ pc[t] \in {"unlocked", "exit"}
  /\ latch' \in Unlocked(t)
  /\ pc' = [pc EXCEPT ![t] = "idle"]
  /\ UNCHANGED <<pages, page_table, free_list, ring_buffer, frame_it_map,
                 lru_blocked, disk, next_page_id, calls, last, fa_i,
                 tracked_at>>

\* FlushAllPagesImpl: no latch; one loop iteration per step
TFlushAllStart(t) ==
  /\ pc[t] = "idle"
  /\ calls < MaxThreadCalls
  /\ calls' = calls + 1
  /\ pc' = [pc EXCEPT ![t] = "flushall"]
  /\ fa_i' = [fa_i EXCEPT ![t] = 0]
  /\ UNCHANGED <<pages, page_table, free_list, ring_buffer, frame_it_map,
                 lru_blocked, disk, next_page_id, last, latch, tracked_at>>

TFlushAllIter(t) ==
  /\ pc[t] = "flushall"
  /\ LET st == FlushAllIter(page_table, [pages |-> pages, disk |-> disk],
                            fa_i[t])
     IN /\ pages' = st.pages
        /\ disk' = st.disk
  /\ IF fa_i[t] + 1 >= PoolSize
     THEN /\ pc' = [pc EXCEPT ![t] = "idle"]
          /\ fa_i' = [fa_i EXCEPT ![t] = 0]
          /\ last' = Result("FlushAll", INVALID_PAGE_ID, TRUE, NoFrame,
                            INVALID_PAGE_ID)
     ELSE /\ fa_i' = [fa_i EXCEPT ![t] = @ + 1]
          /\ UNCHANGED <<pc, last>>
  /\ UNCHANGED <<page_table, free_list, ring_buffer, frame_it_map,
                 lru_blocked, next_page_id, calls, latch, tracked_at>>

NextThreads == \E t \in Threads :
  \/ TLock(t) \/ TFetch(t) \/ TUnpin(t) \/ TFlush(t) \/ TNewPage(t)
  \/ TDeletePage(t) \/ TReturn(t) \/ TFlushAllStart(t) \/ TFlushAllIter(t)

SpecThreads == Init /\ [][NextThreads]_vars

\* --- SpecLRU: the LRUReplacer alone.  One caller calls Victim, Pin and
\* Unpin with frame ids of LruFrameIds; the first MaxLruCalls calls are
\* explored.  tracked_at records the track calls: a frame gets the number of
\* the Unpin call that found it untracked, and 0 when Pin is called for it or
\* Victim returns it.
LruCounted ==
  /\ ~lru_blocked
  /\ calls < MaxLruCalls
  /\ calls' = calls + 1
  /\ UNCHANGED <<pages, page_table, free_list, disk, next_page_id, latch,
                 pc, fa_i>>

LruVictim ==
  /\ LruCounted
  /\ LET v == LRUVictim(ring_buffer, frame_it_map)
     IN /\ ring_buffer' = v.rb
        /\ frame_it_map' = v.fm
        /\ last' = Result("Victim", INVALID_PAGE_ID, v.ok, v.frame_id,
                          INVALID_PAGE_ID)
        /\ tracked_at' = IF v.ok
                         THEN [tracked_at EXCEPT ![v.frame_id] = 0]
                         ELSE tracked_at
  /\ UNCHANGED lru_blocked

LruPin == \E f \in LruFrameIds :
  /\ LruCounted
  /\ LET r == LRUPin(ring_buffer, frame_it_map, f)
     IN /\ ring_buffer' = r.rb
        /\ frame_it_map' = r.fm
  /\ last' = Result("Pin", INVALID_PAGE_ID, TRUE, f, INVALID_PAGE_ID)
  /\ tracked_at' = [tracked_at EXCEPT ![f] = 0]
  /\ UNCHANGED lru_blocked

\* Unpin.  At lines 60-64 Unpin, holding latch_, calls Victim, which locks
\* latch_ again: locking a std::mutex the thread owns is undefined; the call
\* never returns, or the lock is taken and Victim runs.
LruUnpin == \E f \in LruFrameIds :
  /\ LruCounted
  /\ LET r == LRUUnpin(ring_buffer, frame_it_map, f)
         e == LRUUnpinReentered(ring_buffer, frame_it_map, f)
         stamped == IF tracked_at[f] = 0
                    THEN [tracked_at EXCEPT ![f] = calls + 1]
                    ELSE tracked_at
     IN IF ~r.blocked
        THEN /\ ring_buffer' = r.rb
             /\ frame_it_map' = r.fm
             /\ tracked_at' = stamped
             /\ last' = Result("Unpin", INVALID_PAGE_ID, TRUE, f,
                               INVALID_PAGE_ID)
             /\ UNCHANGED lru_blocked
        ELSE \/ /\ lru_blocked' = TRUE
                /\ UNCHANGED <<ring_buffer, frame_it_map, tracked_at, last>>
             \/ /\ ring_buffer' = e.rb
                /\ frame_it_map' = e.fm
                /\ tracked_at' = [stamped EXCEPT ![e.victim] = 0]
                /\ last' = Result("Unpin", INVALID_PAGE_ID, TRUE, f,
                                  INVALID_PAGE_ID)
                /\ UNCHANGED lru_blocked

NextLRU == LruVictim \/ LruPin \/ LruUnpin

SpecLRU == Init /\ [][NextLRU]_vars

\* ------------------------------------------------------------ properties
Resident(f) ==
  /\ Present(page_table, pages[f].page_id)
  /\ page_table[pages[f].page_id] = f

InFreeList(f) == f \in SeqSet(free_list)

Tracked(f) == f \in frame_it_map \/ f \in SeqSet(ring_buffer)

Mapped(f) == \E k \in KeyIds : page_table[k] = f

FetchMissStep(p) ==
  /\ last'.op = "Fetch" /\ last'.page_id = p /\ ~Present(page_table, p)

\* C1: a frame whose pin count is positive and that the page table maps its
\* page to keeps that page and that mapping in every step: it is never
\* reassigned to another page, never handed out as a victim.
C1_PinnedFrameNotReassigned ==
  [][\A f \in Frames :
       (pages[f].pin_count > 0 /\ Resident(f))
         => /\ pages'[f].page_id = pages[f].page_id
            /\ page_table'[pages[f].page_id] = f]_vars

\* C2: every frame the replacer tracks has pin count zero, holds a page the
\* page table maps to that frame, and is not in the free list.
C2_TrackedFramesUnpinnedResident ==
  \A f \in Frames :
    Tracked(f) => /\ pages[f].pin_count = 0
                  /\ Resident(f)
                  /\ ~InFreeList(f)

\* C3: when a Fetch miss reuses a frame that holds a dirty page, the store
\* afterwards holds that frame's bytes under that page's identifier.
C3_FetchWritesBackDirtyVictim ==
  [][\A p \in PageIds, f \in Frames :
       (FetchMissStep(p) /\ last'.ok /\ last'.frame = f
          /\ pages[f].is_dirty /\ pages[f].page_id \in PageIds)
         => disk'[pages[f].page_id] = pages[f].data]_vars

\* C4: every frame is in the free list or the target of a page-table entry,
\* never both and never neither.
C4_FreeXorMapped ==
  \A f \in Frames : InFreeList(f) # Mapped(f)

\* C5: the page table is one-to-one, every entry's frame stores the entry's
\* page identifier, and an entry is only ever added for the argument of a
\* Fetch or the result of a NewPage.
C5_PageTableConsistent ==
  /\ [](\A k \in KeyIds :
          Present(page_table, k) =>
            /\ pages[page_table[k]].page_id = k
            /\ \A j \in KeyIds : page_table[j] = page_table[k] => j = k)
  /\ [][\A k \in KeyIds :
          (~Present(page_table, k) /\ Present(page_table', k))
            => last'.op \in {"Fetch", "NewPage"} /\ last'.page_id = k]_vars

\* C7: Unpin of a resident page whose pin count is zero fails and changes
\* nothing of the pool manager's state, for either value of is_dirty.
C7_UnpinAtZeroChangesNothing ==
  [][\A p \in PageIds :
       (last'.op = "Unpin" /\ last'.page_id = p /\ Present(page_table, p)
          /\ pages[page_table[p]].pin_count = 0)
         => ~last'.ok /\ UNCHANGED poolvars]_vars

\* C8: after FlushAll no resident frame is dirty, and the store holds the
\* bytes of every frame that was resident and dirty under its page's id.
C8_FlushAllFlushesEveryDirtyFrame ==
  [][last'.op = "FlushAll" =>
       \A f \in Frames :
         Resident(f) =>
           /\ ~pages'[f].is_dirty
           /\ pages[f].is_dirty => disk'[pages[f].page_id] = pages[f].data]_vars

NoFrameAvailable ==
  free_list = <<>> /\ \A f \in Frames : pages[f].pin_count > 0

\* C9: NewPage fails, allocates no identifier and changes nothing exactly
\* when the free list is empty and every frame is pinned; otherwise it
\* returns a frame with pin count 1 that the fresh identifier maps to.
C9_NewPageFailsIffAllPinned ==
  [][last'.op = "NewPage" =>
       IF NoFrameAvailable
       THEN ~last'.ok /\ UNCHANGED poolvars
       ELSE /\ last'.ok
            /\ last'.page_id = next_page_id
            /\ last'.frame \in Frames
            /\ pages'[last'.frame].pin_count = 1
            /\ pages'[last'.frame].page_id = last'.page_id
            /\ page_table'[last'.page_id] = last'.frame]_vars

InCriticalSection(t) == pc[t] \in {"locked", "exit", "flushall"}

\* C6: at most one thread at a time is inside the part of a pool manager
\* operation that reads and writes page table, free list and frame
\* metadata.
C6_OneThreadInCriticalSection ==
  \A t1, t2 \in Threads :
    (InCriticalSection(t1) /\ InCriticalSection(t2)) => t1 = t2

\* page p is resident: the page table maps it to a frame that holds it
PageResident(p) ==
  Present(page_table, p) /\ pages[page_table[p]].page_id = p

\* C11: DeletePage of a resident page with positive pin count fails and
\* changes nothing; DeletePage of a page that is not resident succeeds,
\* deallocates nothing and changes nothing; DeletePage of a resident page
\* with pin count zero succeeds, deallocates that identifier, removes the
\* mapping and leaves the frame invalid, unpinned, clean and in the free
\* list.
C11_DeletePageCases ==
  [][\A p \in PageIds :
       (last'.op = "Delete" /\ last'.page_id = p) =>
         IF ~PageResident(p)
         THEN /\ last'.ok
              /\ last'.dealloc = INVALID_PAGE_ID
              /\ UNCHANGED poolvars
         ELSE LET f == page_table[p] IN
              IF pages[f].pin_count > 0
              THEN /\ ~last'.ok
                   /\ last'.dealloc = INVALID_PAGE_ID
                   /\ UNCHANGED poolvars
              ELSE /\ last'.ok
                   /\ last'.dealloc = p
                   /\ ~Present(page_table', p)
                   /\ pages'[f].page_id = INVALID_PAGE_ID
                   /\ pages'[f].pin_count = 0
                   /\ ~pages'[f].is_dirty
                   /\ f \in SeqSet(free_list')]_vars

\* the frames tracked according to the calls made so far
TrackedByCalls == { f \in LruFrameIds : tracked_at[f] > 0 }

\* of these, the frame whose track call is the earliest
OldestTracked ==
  CHOOSE f \in TrackedByCalls :
    \A g \in TrackedByCalls : tracked_at[f] <= tracked_at[g]

\* C12: the replacer tracks exactly the frames that were tracked and not
\* untracked or evicted since; Victim returns the tracked frame whose track
\* call is the earliest and removes it, and fails exactly when no frame is
\* tracked; Unpin of a tracked frame and Pin of an untracked frame change
\* neither list nor map.
C12_EvictsInTrackOrder ==
  /\ [](~lru_blocked => frame_it_map = TrackedByCalls)
  /\ [][(calls' = calls + 1 /\ ~lru_blocked') =>
          /\ last'.op = "Victim" =>
               IF TrackedByCalls = {}
               THEN ~last'.ok /\ UNCHANGED <<ring_buffer, frame_it_map>>
               ELSE /\ last'.ok
                    /\ last'.frame = OldestTracked
                    /\ frame_it_map' = frame_it_map \ {OldestTracked}
          /\ (last'.op = "Unpin" /\ last'.frame \in TrackedByCalls)
               => UNCHANGED <<ring_buffer, frame_it_map>>
          /\ (last'.op = "Pin" /\ last'.frame \notin TrackedByCalls)
               => UNCHANGED <<ring_buffer, frame_it_map>>]_vars

\* Victim has returned a frame that is not the one with the smallest index
\* among the frames that were tracked
C12_Witness ==
  /\ last.op = "Victim" /\ last.ok
  /\ \E g \in frame_it_map : g < last.frame

\* C15: no call is left waiting for a latch: every call of the replacer
\* and of the pool manager returns.
C15_NoCallBlocks == ~lru_blocked

\* C20: list and map of the replacer hold the same frames, each frame once,
\* and Size() is at most max_num_pages.
C20_ListAndMapAgree ==
  /\ SeqSet(ring_buffer) = frame_it_map
  /\ Len(ring_buffer) = Cardinality(frame_it_map)
  /\ LRUSize(ring_buffer) <= max_num_pages

\* Unpin has put a frame at the front of a list that now holds
\* max_num_pages frames
C20_Witness ==
  /\ last.op = "Unpin"
  /\ LRUSize(ring_buffer) = max_num_pages
  /\ Head(ring_buffer) = last.frame
  /\ calls > max_num_pages

\* C13: a Fetch of a page the page table does not have, or a NewPage, made
\* while the free list is not empty takes its frame from the free list,
\* leaves the replacer as it was and writes nothing to the store.
C13_FreePoolPreferred ==
  [][(/\ free_list # <<>>
      /\ \/ \E p \in PageIds : FetchMissStep(p)
         \/ last'.op = "NewPage")
       => /\ last'.ok
          /\ last'.frame \in SeqSet(free_list)
          /\ free_list' = SeqRemove(free_list, last'.frame)
          /\ UNCHANGED <<ring_buffer, frame_it_map>>
          /\ disk' = disk]_vars

\* C14: no frame's pin count is ever negative, and an Unpin of a page whose
\* frame has pin count zero returns failure and leaves the count at zero.
C14_PinCountNeverNegative ==
  /\ [](\A f \in Frames : pages[f].pin_count >= 0)
  /\ [][\A p \in PageIds :
          (last'.op = "Unpin" /\ last'.page_id = p
             /\ Present(page_table, p)
             /\ pages[page_table[p]].pin_count = 0)
            => /\ ~last'.ok
               /\ pages'[page_table[p]].pin_count = 0]_vars

\* an Unpin of a page in the page table has failed at pin count zero
C14_Witness ==
  /\ last.op = "Unpin" /\ ~last.ok
  /\ last.frame \in Frames
  /\ pages[last.frame].pin_count = 0

\* C16: a Fetch of a page the page table has returns the mapped frame, that
\* frame holds the page, its pin count grows by one and nothing else of
\* the frames changes, the frame leaves the replacer, and page table, free
\* list and store are as before.
C16_FetchHitPinsMappedFrame ==
  [][\A p \in PageIds :
       (last'.op = "Fetch" /\ last'.page_id = p /\ Present(page_table, p))
         => LET f == page_table[p]
            IN /\ last'.ok
               /\ last'.frame = f
               /\ pages'[f].page_id = p
               /\ pages' = [pages EXCEPT ![f].pin_count = @ + 1]
               /\ frame_it_map' = frame_it_map \ {f}
               /\ ring_buffer' = SeqRemove(ring_buffer, f)
               /\ UNCHANGED <<page_table, free_list, disk>>]_vars

\* C17: Flush of a page that is not resident fails and changes nothing;
\* Flush of a resident page succeeds, leaves its frame clean, and writes the
\* frame's bytes under the page's identifier exactly when the frame was
\* dirty; pin counts, page table, free list and replacer never change.
C17_FlushWritesResidentDirtyPage ==
  [][\A p \in PageIds :
       (last'.op = "Flush" /\ last'.page_id = p) =>
         IF ~PageResident(p)
         THEN ~last'.ok /\ UNCHANGED poolvars
         ELSE LET f == page_table[p]
              IN /\ last'.ok
                 /\ pages' = [pages EXCEPT ![f].is_dirty = FALSE]
                 /\ disk' = IF pages[f].is_dirty
                            THEN [disk EXCEPT ![p] = pages[f].data]
                            ELSE disk
                 /\ UNCHANGED <<page_table, free_list, ring_buffer,
                                frame_it_map>>]_vars

\* C18: every change of the store's content of a page identifier puts
\* there the bytes of a frame that holds that page: no page's bytes are
\* written under another page's identifier.
C18_StoreWritesUnderOwnIdentifier ==
  [][\A k \in KeyIds :
       disk'[k] # disk[k] =>
         \E f \in Frames : pages[f].page_id = k /\ pages[f].data = disk'[k]]_vars

\* thread t calls latch_.unlock() in this step: in the body before an early
\* return, or in the destructor of its scoped_lock
UnlockStep(t) ==
  \/ pc[t] = "locked" /\ pc'[t] = "unlocked"
  \/ pc[t] \in {"unlocked", "exit"} /\ pc'[t] = "idle"

\* C19: a thread unlocks the pool latch only while it holds it: no path of
\* Fetch, Unpin, Flush, NewPage or DeletePage unlocks a second time or
\* unlocks a latch that is free or held by another thread.
C19_UnlockOnlyByHolder ==
  [][\A t \in Threads : UnlockStep(t) => latch = t]_vars

====
